---- MODULE Spec2Model ----
(***************************************************************************)
(* A model of kvstore_cpp17 (src/main.cpp): the KeyValueStore class, its   *)
(* mutex, the snapshot file format written by save_to_file and read back   *)
(* by load_from_file, and the threads that call the store.                 *)
(*                                                                         *)
(* A std::string is a sequence of one-character strings, so escape, trim   *)
(* and the line parser of load_from_file work on characters as the code    *)
(* does.  A file is a record [exists, data]: data is the byte sequence.    *)
(***************************************************************************)
EXTENDS Integers, Sequences, FiniteSets, TLC

\* ------------------------------------------------------------------ bounds

\* Number of threads that call the store in Spec.
NumThreads == 2

\* The number of lines of the files load_from_file is given in SpecLoad.
MaxLines == 3

\* Longest value string drawn for the snapshot specification SpecSnap.
MaxValLen == 2

\* ------------------------------------------------------------- characters

QUOTE == "\""
BSLASH == "\\"
COLON == ":"
COMMA == ","
SPACE == " "
NEWLINE == "\n"
LBRACE == "{"
RBRACE == "}"

\* The characters trim() removes: the argument of find_first_not_of.
Whitespace == {" ", "\t", "\n", "\r"}

\* ------------------------------------------------------- string utilities

\* A local variable: the expression v is evaluated once and F is applied to
\* its value.
Bind(v, F(_)) == CHOOSE r \in {F(x) : x \in {v}} : TRUE

\* std::string::substr(pos) / substr(pos, n), 0-based as in the code.
substr(s, pos, n) == SubSeq(s, pos + 1, pos + n)

substrFrom(s, pos) == SubSeq(s, pos + 1, Len(s))

\* escape(): '"' becomes \" and '\' becomes \\, every other char is copied.
RECURSIVE escape(_)
escape(s) ==
    IF s = <<>> THEN <<>>
    ELSE LET c == Head(s)
             e == IF c = QUOTE THEN <<BSLASH, QUOTE>>
                  ELSE IF c = BSLASH THEN <<BSLASH, BSLASH>>
                  ELSE <<c>>
         IN e \o escape(Tail(s))

\* npos: the result of a find that fails.
npos == -1

\* str.find_first_not_of(" \t\n\r"), 0-based, npos when there is none.
find_first_not_of_ws(s) ==
    LET I == {i \in 1..Len(s) : s[i] \notin Whitespace}
    IN IF I = {} THEN npos ELSE (CHOOSE i \in I : \A j \in I : i <= j) - 1

\* str.find_last_not_of(" \t\n\r"), 0-based.
find_last_not_of_ws(s) ==
    LET I == {i \in 1..Len(s) : s[i] \notin Whitespace}
    IN IF I = {} THEN npos ELSE (CHOOSE i \in I : \A j \in I : i >= j) - 1

\* line.find(c), 0-based, npos when c does not occur.
find(s, c) ==
    LET I == {i \in 1..Len(s) : s[i] = c}
    IN IF I = {} THEN npos ELSE (CHOOSE i \in I : \A j \in I : i <= j) - 1

\* trim(): whitespace removed from both ends.
trim(str) ==
    Bind(str, LAMBDA s :
      Bind(find_first_not_of_ws(s), LAMBDA first :
        IF first = npos THEN <<>>
        ELSE Bind(find_last_not_of_ws(s), LAMBDA last :
               substr(s, first, last - first + 1))))

front(s) == s[1]

back(s) == s[Len(s)]

pop_back(s) == SubSeq(s, 1, Len(s) - 1)

\* ------------------------------------------------- std::unordered_map

\* The map is a function from the keys present to their values.
EmptyMap == <<>>

\* Mutant of MapAssign: store_.insert({key, value}), which leaves the value
\* of a key that is already present as it is.
MapInsert(m, key, value) ==
    [k \in (DOMAIN m) \cup {key} |-> IF k \in DOMAIN m THEN m[k] ELSE value]

\* store_[key] = value
MapAssign(m, key, value) ==
    [k \in (DOMAIN m) \cup {key} |-> IF k = key THEN value ELSE m[k]]

\* Mutant of MapErase: store_.clear() where erase(key) is meant.
MapEraseAll(m, key) == [k \in {} |-> m[k]]

\* store_.erase(key)
MapErase(m, key) == [k \in (DOMAIN m) \ {key} |-> m[k]]

\* store_.find(key) != store_.end()
MapContains(m, key) == key \in DOMAIN m

\* The iteration orders begin()..end() may have: the order of an
\* unordered_map is unspecified, so every ordering of the keys is possible.
IterationOrders(m) ==
    {o \in [1..Cardinality(DOMAIN m) -> DOMAIN m] :
        \A i, j \in DOMAIN o : i # j => o[i] # o[j]}

\* ------------------------------------------------------- snapshot format

\* One entry line of save_to_file: two spaces, "key": "value", then a comma
\* unless the entry is the last of the iteration, then a newline.
EntryLine(m, key, isLast) ==
    <<SPACE, SPACE, QUOTE>> \o escape(key) \o <<QUOTE, COLON, SPACE, QUOTE>>
        \o escape(m[key]) \o <<QUOTE>>
        \o (IF isLast THEN <<>> ELSE <<COMMA>>) \o <<NEWLINE>>

RECURSIVE EntryLines(_, _, _)
EntryLines(m, order, i) ==
    IF i > Len(order) THEN <<>>
    ELSE EntryLine(m, order[i], i = Len(order)) \o EntryLines(m, order, i + 1)

\* Everything save_to_file writes to ofs when the map is iterated in `order`.
SnapshotText(m, order) ==
    <<LBRACE, NEWLINE>> \o EntryLines(m, order, 1) \o <<RBRACE, NEWLINE>>

\* std::getline(ifs, line) at offset pos of the data (0-based): ok is FALSE
\* when no character is left; otherwise the line up to the next newline and
\* the offset after that newline.
getline(data, pos) ==
    IF pos >= Len(data) THEN [ok |-> FALSE, line |-> <<>>, pos |-> pos]
    ELSE Bind(substrFrom(data, pos), LAMBDA rest :
           Bind(find(rest, NEWLINE), LAMBDA nl :
             IF nl = npos
             THEN [ok |-> TRUE, line |-> rest, pos |-> Len(data)]
             ELSE [ok |-> TRUE, line |-> substr(rest, 0, nl), pos |-> pos + nl + 1]))

\* The line of the loop body after trim: skipped when it is empty, "{" or
\* "}", or holds no ':'.
LineSkipped(line) ==
    \/ line = <<>>
    \/ line = <<LBRACE>>
    \/ line = <<RBRACE>>
    \/ find(line, COLON) = npos

\* The key of a line that is not skipped: the text before the first ':',
\* trimmed, without one leading and one trailing quote.
LineKey(line) ==
    Bind(find(line, COLON), LAMBDA colon :
      Bind(trim(substr(line, 0, colon)), LAMBDA key0 :
        Bind(IF key0 # <<>> /\ front(key0) = QUOTE THEN substrFrom(key0, 1) ELSE key0,
             LAMBDA key1 :
               IF key1 # <<>> /\ back(key1) = QUOTE THEN pop_back(key1) ELSE key1)))

\* Mutant of LineValue: the trailing quote is removed before the trailing
\* comma.
LineValue_quote_first(line) ==
    Bind(find(line, COLON), LAMBDA colon :
      Bind(trim(substrFrom(line, colon + 1)), LAMBDA v0 :
        Bind(IF v0 # <<>> /\ front(v0) = QUOTE THEN substrFrom(v0, 1) ELSE v0,
             LAMBDA v1 :
               Bind(IF v1 # <<>> /\ back(v1) = QUOTE THEN pop_back(v1) ELSE v1,
                    LAMBDA v2 :
                      IF v2 # <<>> /\ back(v2) = COMMA THEN pop_back(v2) ELSE v2))))

\* The value of a line that is not skipped: the text after the first ':',
\* trimmed, without one leading quote, one trailing comma, one trailing quote.
LineValue(line) ==
    Bind(find(line, COLON), LAMBDA colon :
      Bind(trim(substrFrom(line, colon + 1)), LAMBDA v0 :
        Bind(IF v0 # <<>> /\ front(v0) = QUOTE THEN substrFrom(v0, 1) ELSE v0,
             LAMBDA v1 :
               Bind(IF v1 # <<>> /\ back(v1) = COMMA THEN pop_back(v1) ELSE v1,
                    LAMBDA v2 :
                      IF v2 # <<>> /\ back(v2) = QUOTE THEN pop_back(v2) ELSE v2))))

\* Mutant of LoadLineInto: a line without ':' that has a '=' is read as
\* key=value.
LoadLineInto_eq(m, raw) ==
    Bind(trim(raw), LAMBDA line :
      IF line = <<>> \/ line = <<LBRACE>> \/ line = <<RBRACE>> THEN m
      ELSE IF find(line, COLON) # npos
           THEN MapAssign(m, LineKey(line), LineValue(line))
           ELSE Bind(find(line, "="), LAMBDA eq :
                  IF eq = npos THEN m
                  ELSE MapAssign(m, substr(line, 0, eq), substrFrom(line, eq + 1))))

\* One iteration of the while loop of load_from_file on the raw line.
LoadLineInto(m, raw) ==
    Bind(trim(raw), LAMBDA line :
      IF LineSkipped(line) THEN m
      ELSE Bind(LineKey(line), LAMBDA key :
             Bind(LineValue(line), LAMBDA value : MapAssign(m, key, value))))

\* The whole while loop of load_from_file, from offset pos.
RECURSIVE LoadLoop(_, _, _)
LoadLoop(m, data, pos) ==
    Bind(getline(data, pos), LAMBDA g :
      IF ~g.ok THEN m
      ELSE Bind(LoadLineInto(m, g.line), LAMBDA next : LoadLoop(next, data, g.pos)))

\* ------------------------------------------------------------------ state

VARIABLES
    store_,   \* KeyValueStore::store_
    mutex_,   \* KeyValueStore::mutex_: the thread that holds it, or Unlocked
    fs,       \* the file system: path -> [exists, data]
    pc,       \* per thread: where it is in the operation it called
    op,       \* per thread: the operation called last and its arguments
    ret,      \* per thread: what that operation returned
    out,      \* per thread: what that operation logged and printed
    ifs,      \* per thread: read offset of load_from_file's ifstream
    lin,      \* history: the map after the operations run one at a time in
              \* the order in which they acquired the mutex
    expect,   \* history: per thread, the result of its operation in that run
    snap,     \* history: path -> the map the last complete save serialized
    live,     \* history: the keys whose most recent set was followed by
              \* neither a remove of the key nor a clear
    main_pc,  \* where main() is: "run_tests", "run_cli", "return", "abort"
    test_pc,  \* run_tests: the number of the statement to execute next
    test_kv,  \* run_tests: the map of its local KeyValueStore kv
    cin,      \* std::cin: "good", "eof" (eofbit) or "fail" (failbit)
    input,    \* run_cli: std::string input
    log,      \* run_cli: what the last iteration of the loop logged itself
    prompts   \* run_cli: the number of prompts printed so far, modulo 2

\* The state of main(), run_tests() and run_cli().
cli == <<main_pc, test_pc, test_kv, cin, input, log, prompts>>

vars == <<store_, mutex_, fs, pc, op, ret, out, ifs, lin, expect, snap, live, cli>>

Unlocked == 0

Threads == DOMAIN pc

\* The paths the threads pass to save_to_file and load_from_file.  The
\* directory of BadPath does not exist: neither ofstream nor ifstream opens it.
GoodPath == "data.json"

BadPath == "nodir/data.json"

Paths == {GoodPath, BadPath}

\* A file that exists and can be read, but whose permissions refuse
\* writing: ofstream does not open it and does not truncate it.
ReadOnlyPath == "readonly.json"

AllPaths == Paths \cup {ReadOnlyPath}

NoFile == [exists |-> FALSE, data |-> <<>>]

File(data) == [exists |-> TRUE, data |-> data]

\* std::ofstream ofs(filename) succeeds
CanOpenForWriting(path) == path \notin {BadPath, ReadOnlyPath}

\* std::ifstream ifs(filename) succeeds
CanOpenForReading(path) == fs[path].exists

\* The keys and values the threads of Spec pass to the store.
Keys == {<<"a">>, <<"b">>}

Values == {<<"x">>, <<>>}

\* An operation with its arguments; the fields an operation does not take
\* are empty.
Op(name, key, value, path) ==
    [name |-> name, key |-> key, value |-> value, path |-> path]

NoOp == Op("none", <<>>, <<>>, "")

SetOps == {Op("set", k, v, "") : k \in Keys, v \in Values}

KeyOps == {Op(n, k, <<>>, "") : n \in {"get", "remove", "exists"}, k \in Keys}

PlainOps == {Op(n, <<>>, <<>>, "") : n \in {"clear", "print_all"}}

FileOps == {Op(n, <<>>, <<>>, p) : n \in {"save_to_file", "load_from_file"}, p \in Paths}

AllOps == SetOps \cup KeyOps \cup PlainOps \cup FileOps

\* Results: std::optional<std::string>, bool, void, and the lines print_all
\* writes to std::cout.
Void == <<"void">>

Nullopt == <<"nullopt">>

Some(value) == <<"some", value>>

Bool(b) == <<"bool", b>>

Dump(entries) == <<"dump", entries>>

\* Logger::info(msg), Logger::error(msg): the stream tag and the message,
\* as the fixed text and the strings concatenated to it.
Info(what, arg) == [level |-> "INFO", what |-> what, arg |-> arg]

Error(what, arg) == [level |-> "ERROR", what |-> what, arg |-> arg]

\* ----------------------------------------------- results of the operations

\* get: find(key), then the mapped value or std::nullopt
GetResult(m, key) == IF MapContains(m, key) THEN Some(m[key]) ELSE Nullopt

\* exists: find(key) != end()
ExistsResult(m, key) == Bool(MapContains(m, key))

\* print_all: one "- key: value" line per entry, in iteration order
DumpLines(m, order) == [i \in DOMAIN order |-> <<order[i], m[order[i]]>>]

\* ------------------------------------------ one operation run on its own

\* The map after operation o runs alone, start to end, on map m and files f.
SeqStore(o, m, f) ==
    CASE o.name = "set" -> MapAssign(m, o.key, o.value)
      [] o.name = "remove" -> MapErase(m, o.key)
      [] o.name = "clear" -> EmptyMap
      [] o.name = "load_from_file" ->
            IF f[o.path].exists THEN LoadLoop(EmptyMap, f[o.path].data, 0) ELSE m
      [] OTHER -> m

\* What operation o returns when it runs alone on map m; for print_all the
\* set of entries it prints.
SeqResult(o, m) ==
    CASE o.name = "get" -> GetResult(m, o.key)
      [] o.name = "exists" -> ExistsResult(m, o.key)
      [] o.name = "print_all" -> Dump({<<k, m[k]>> : k \in DOMAIN m})
      [] OTHER -> Void

\* ret agrees with the result of the sequential run.
SameResult(r, e) ==
    IF r[1] = "dump"
    THEN /\ e[1] = "dump"
         /\ {r[2][i] : i \in DOMAIN r[2]} = e[2]
         /\ Len(r[2]) = Cardinality(e[2])
    ELSE r = e

\* ---------------------------------------------------------------- actions

\* A store operation is called on thread t: nothing of the store is touched
\* yet.
Invoke(t, o) ==
    /\ pc[t] = "idle"
    /\ pc' = [pc EXCEPT ![t] = "called"]
    /\ op' = [op EXCEPT ![t] = o]
    /\ ret' = [ret EXCEPT ![t] = Void]
    /\ out' = [out EXCEPT ![t] = <<>>]
    /\ expect' = [expect EXCEPT ![t] = Void]
    /\ UNCHANGED <<store_, mutex_, fs, ifs, lin, snap, live>>

\* A thread calls a store operation by itself, with no interpreter in between.
Call(t, o) == Invoke(t, o) /\ UNCHANGED cli

\* Mutant of lock_guard: the operation enters its body without waiting for
\* the mutex to be free.
lock_guard_no_wait(t) ==
    /\ pc[t] = "called"
    /\ mutex_' = t
    /\ pc' = [pc EXCEPT ![t] = "locked"]
    /\ lin' = SeqStore(op[t], lin, fs)
    /\ expect' = [expect EXCEPT ![t] = SeqResult(op[t], lin)]
    /\ UNCHANGED <<store_, fs, op, ret, out, ifs, snap, live, cli>>

\* std::lock_guard<std::mutex> lock(mutex_): the first statement of every
\* operation; it blocks while another thread holds the mutex.
lock_guard(t) ==
    /\ pc[t] = "called"
    /\ mutex_ = Unlocked
    /\ mutex_' = t
    /\ pc' = [pc EXCEPT ![t] = "locked"]
    /\ lin' = SeqStore(op[t], lin, fs)
    /\ expect' = [expect EXCEPT ![t] = SeqResult(op[t], lin)]
    /\ UNCHANGED <<store_, fs, op, ret, out, ifs, snap, live, cli>>

\* The operation returns r having written the lines `lines`: the lock_guard
\* goes out of scope and releases the mutex.
Return(t, r, lines) ==
    /\ mutex_' = Unlocked
    /\ pc' = [pc EXCEPT ![t] = "idle"]
    /\ ret' = [ret EXCEPT ![t] = r]
    /\ out' = [out EXCEPT ![t] = lines]
    /\ ifs' = [ifs EXCEPT ![t] = 0]
    /\ UNCHANGED <<op, lin, expect>>

\* The thread holds the mutex and is at the body of operation `name`.
AtBody(t, name) == pc[t] = "locked" /\ op[t].name = name

\* Mutant of set: the two arguments are swapped in the assignment.
set_swapped(t) ==
    /\ AtBody(t, "set")
    /\ store_' = MapAssign(store_, op[t].value, op[t].key)
    /\ Return(t, Void, <<Info("Set", <<op[t].key, op[t].value>>)>>)
    /\ live' = live \cup {op[t].key}
    /\ UNCHANGED <<fs, snap, cli>>

set(t) ==
    /\ AtBody(t, "set")
    /\ store_' = MapAssign(store_, op[t].key, op[t].value)
    /\ Return(t, Void, <<Info("Set", <<op[t].key, op[t].value>>)>>)
    /\ live' = live \cup {op[t].key}
    /\ UNCHANGED <<fs, snap, cli>>

get(t) ==
    /\ AtBody(t, "get")
    /\ Return(t, GetResult(store_, op[t].key), <<>>)
    /\ UNCHANGED <<store_, fs, snap, live, cli>>

\* Mutant of remove: the line is logged and the key is not erased.
remove_log_only(t) ==
    /\ AtBody(t, "remove")
    /\ Return(t, Void, <<Info("Removed key", <<op[t].key>>)>>)
    /\ live' = live \ {op[t].key}
    /\ UNCHANGED <<store_, fs, snap, cli>>

remove(t) ==
    /\ AtBody(t, "remove")
    /\ store_' = MapErase(store_, op[t].key)
    /\ Return(t, Void, <<Info("Removed key", <<op[t].key>>)>>)
    /\ live' = live \ {op[t].key}
    /\ UNCHANGED <<fs, snap, cli>>

print_all(t) ==
    /\ AtBody(t, "print_all")
    /\ \E order \in IterationOrders(store_) :
          Return(t, Dump(DumpLines(store_, order)), <<>>)
    /\ UNCHANGED <<store_, fs, snap, live, cli>>

exists(t) ==
    /\ AtBody(t, "exists")
    /\ Return(t, ExistsResult(store_, op[t].key), <<>>)
    /\ UNCHANGED <<store_, fs, snap, live, cli>>

\* Mutant of clear: store_.erase(store_.begin()), one entry instead of all.
clear_first_entry(t) ==
    /\ AtBody(t, "clear")
    /\ \/ store_ = EmptyMap /\ store_' = store_
       \/ \E k \in DOMAIN store_ : store_' = MapErase(store_, k)
    /\ Return(t, Void, <<Info("Store cleared", <<>>)>>)
    /\ live' = {}
    /\ UNCHANGED <<fs, snap, cli>>

clear(t) ==
    /\ AtBody(t, "clear")
    /\ store_' = EmptyMap
    /\ Return(t, Void, <<Info("Store cleared", <<>>)>>)
    /\ live' = {}
    /\ UNCHANGED <<fs, snap, cli>>

\* Mutant of save_open: the return after the error line is missing, so the
\* operation goes on to write and to log success.
save_open_no_return(t) ==
    /\ AtBody(t, "save_to_file")
    /\ IF CanOpenForWriting(op[t].path)
       THEN /\ fs' = [fs EXCEPT ![op[t].path] = File(<<>>)]
            /\ out' = out
       ELSE /\ out' = [out EXCEPT ![t] =
                         <<Error("Could not open file for writing", op[t].path)>>]
            /\ UNCHANGED fs
    /\ pc' = [pc EXCEPT ![t] = "saving"]
    /\ UNCHANGED <<mutex_, ret, ifs, op, lin, expect>>
    /\ UNCHANGED <<store_, snap, live, cli>>

\* Mutant of save_open: the guard is released once the file is open, before
\* the entries are written.
save_open_short_lock(t) ==
    /\ AtBody(t, "save_to_file")
    /\ IF CanOpenForWriting(op[t].path)
       THEN /\ fs' = [fs EXCEPT ![op[t].path] = File(<<>>)]
            /\ pc' = [pc EXCEPT ![t] = "saving"]
            /\ mutex_' = Unlocked
            /\ UNCHANGED <<ret, out, ifs, op, lin, expect>>
       ELSE /\ Return(t, Void, <<Error("Could not open file for writing", op[t].path)>>)
            /\ UNCHANGED fs
    /\ UNCHANGED <<store_, snap, live, cli>>

\* Mutant of save_open: the early return leaves the guard locked.
save_open_keeps_guard(t) ==
    /\ AtBody(t, "save_to_file")
    /\ IF CanOpenForWriting(op[t].path)
       THEN /\ fs' = [fs EXCEPT ![op[t].path] = File(<<>>)]
            /\ pc' = [pc EXCEPT ![t] = "saving"]
            /\ UNCHANGED <<ret, out, ifs>>
       ELSE /\ pc' = [pc EXCEPT ![t] = "idle"]
            /\ ret' = [ret EXCEPT ![t] = Void]
            /\ out' = [out EXCEPT ![t] =
                         <<Error("Could not open file for writing", op[t].path)>>]
            /\ ifs' = [ifs EXCEPT ![t] = 0]
            /\ UNCHANGED fs
    /\ UNCHANGED <<mutex_, op, lin, expect, store_, snap, live, cli>>

\* save_to_file up to the test of ofs: opening truncates the file; when the
\* file cannot be opened the error is logged and the operation returns.
save_open(t) ==
    /\ AtBody(t, "save_to_file")
    /\ IF CanOpenForWriting(op[t].path)
       THEN /\ fs' = [fs EXCEPT ![op[t].path] = File(<<>>)]
            /\ pc' = [pc EXCEPT ![t] = "saving"]
            /\ UNCHANGED <<mutex_, ret, out, ifs, op, lin, expect>>
       ELSE /\ Return(t, Void, <<Error("Could not open file for writing", op[t].path)>>)
            /\ UNCHANGED fs
    /\ UNCHANGED <<store_, snap, live, cli>>

\* save_to_file from "{" to the end: the entries are written in the order
\* of iteration, ofs is closed, the info line is logged.
save_write(t) ==
    /\ pc[t] = "saving"
    /\ \E order \in IterationOrders(store_) :
          fs' = [fs EXCEPT ![op[t].path] = File(SnapshotText(store_, order))]
    /\ snap' = [snap EXCEPT ![op[t].path] = store_]
    /\ Return(t, Void, <<Info("Data saved to", op[t].path)>>)
    /\ UNCHANGED <<store_, live, cli>>

\* Mutant of load_open: the lock covers only the open and the clear, and is
\* released before the loop re-inserts the entries.
load_open_short_lock(t) ==
    /\ AtBody(t, "load_from_file")
    /\ IF CanOpenForReading(op[t].path)
       THEN /\ store_' = EmptyMap
            /\ pc' = [pc EXCEPT ![t] = "loading"]
            /\ ifs' = [ifs EXCEPT ![t] = 0]
            /\ mutex_' = Unlocked
            /\ UNCHANGED <<ret, out, op, lin, expect>>
       ELSE /\ Return(t, Void, <<Error("Could not open file", op[t].path)>>)
            /\ UNCHANGED store_
    /\ UNCHANGED <<fs, snap, live, cli>>

\* Mutant of load_open: store_.clear() is moved above the test of ifs.
load_open_clear_first(t) ==
    /\ AtBody(t, "load_from_file")
    /\ store_' = EmptyMap
    /\ IF CanOpenForReading(op[t].path)
       THEN /\ pc' = [pc EXCEPT ![t] = "loading"]
            /\ ifs' = [ifs EXCEPT ![t] = 0]
            /\ UNCHANGED <<mutex_, ret, out, op, lin, expect>>
       ELSE Return(t, Void, <<Error("Could not open file", op[t].path)>>)
    /\ UNCHANGED <<fs, snap, live, cli>>

\* Mutant of load_open: store_.clear() is left out, so the load merges.
load_open_merge(t) ==
    /\ AtBody(t, "load_from_file")
    /\ IF CanOpenForReading(op[t].path)
       THEN /\ pc' = [pc EXCEPT ![t] = "loading"]
            /\ ifs' = [ifs EXCEPT ![t] = 0]
            /\ UNCHANGED <<mutex_, ret, out, op, lin, expect>>
       ELSE Return(t, Void, <<Error("Could not open file", op[t].path)>>)
    /\ UNCHANGED <<store_, fs, snap, live, cli>>

\* load_from_file up to the loop: when the file cannot be opened the error
\* is logged and the operation returns; otherwise the map is cleared.
load_open(t) ==
    /\ AtBody(t, "load_from_file")
    /\ IF CanOpenForReading(op[t].path)
       THEN /\ store_' = EmptyMap
            /\ pc' = [pc EXCEPT ![t] = "loading"]
            /\ ifs' = [ifs EXCEPT ![t] = 0]
            /\ UNCHANGED <<mutex_, ret, out, op, lin, expect>>
       ELSE /\ Return(t, Void, <<Error("Could not open file", op[t].path)>>)
            /\ UNCHANGED store_
    /\ UNCHANGED <<fs, snap, live, cli>>

\* Mutant of load_line: a line that is skipped ends the loop (break where
\* continue is meant).
load_line_break(t) ==
    /\ pc[t] = "loading"
    /\ \E g \in {getline(fs[op[t].path].data, ifs[t])} :
          /\ g.ok
          /\ IF LineSkipped(trim(g.line))
             THEN /\ Return(t, Void, <<Info("Data loaded from", op[t].path)>>)
                  /\ UNCHANGED store_
             ELSE /\ store_' = LoadLineInto(store_, g.line)
                  /\ ifs' = [ifs EXCEPT ![t] = g.pos]
                  /\ UNCHANGED <<mutex_, pc, ret, out, op, lin, expect>>
    /\ UNCHANGED <<fs, snap, live, cli>>

\* One iteration of the while loop of load_from_file.
load_line(t) ==
    /\ pc[t] = "loading"
    /\ \E g \in {getline(fs[op[t].path].data, ifs[t])} :
          /\ g.ok
          /\ store_' = LoadLineInto(store_, g.line)
          /\ ifs' = [ifs EXCEPT ![t] = g.pos]
    /\ UNCHANGED <<mutex_, fs, pc, op, ret, out, lin, expect, snap, live, cli>>

\* getline fails: the loop ends, the info line is logged.
load_done(t) ==
    /\ pc[t] = "loading"
    /\ ~getline(fs[op[t].path].data, ifs[t]).ok
    /\ Return(t, Void, <<Info("Data loaded from", op[t].path)>>)
    /\ UNCHANGED <<store_, fs, snap, live, cli>>

\* One step of thread t inside an operation it has called.
Step(t) ==
    \/ lock_guard(t)
    \/ set(t)
    \/ get(t)
    \/ remove(t)
    \/ print_all(t)
    \/ exists(t)
    \/ clear(t)
    \/ save_open(t)
    \/ save_write(t)
    \/ load_open(t)
    \/ load_line(t)
    \/ load_done(t)

\* ------------------------------------------------------- specification

\* No main(): the threads call the store themselves.
NoMain ==
    /\ main_pc = "none"
    /\ test_pc = 0
    /\ test_kv = EmptyMap
    /\ cin = "good"
    /\ input = <<>>
    /\ log = <<>>
    /\ prompts = 0

\* A store as constructed (empty map, free mutex), no snapshot file yet,
\* and the given threads about to call it.
InitStore(threads, m, files) ==
    /\ store_ = m
    /\ mutex_ = Unlocked
    /\ fs = files
    /\ pc = [t \in threads |-> "idle"]
    /\ op = [t \in threads |-> NoOp]
    /\ ret = [t \in threads |-> Void]
    /\ out = [t \in threads |-> <<>>]
    /\ ifs = [t \in threads |-> 0]
    /\ lin = m
    /\ expect = [t \in threads |-> Void]
    /\ snap = [p \in AllPaths |-> EmptyMap]
    /\ live = DOMAIN m

InitWith(threads, m, files) == InitStore(threads, m, files) /\ NoMain

NoFiles == [p \in AllPaths |-> NoFile]

\* The operations the threads of Spec call: one key and two values, so
\* that two threads can write different values to the same key.
SharedKey == <<"a">>

SharedValues == {<<"x">>, <<"y">>}

SharedOps ==
    {Op("set", SharedKey, v, "") : v \in SharedValues}
    \cup {Op(n, SharedKey, <<>>, "") : n \in {"get", "remove", "exists"}}
    \cup PlainOps \cup FileOps

\* NumThreads threads call the operations of one store at any time.
Init == InitWith(1..NumThreads, EmptyMap, NoFiles)

Next == \E t \in 1..NumThreads : (\E o \in SharedOps : Call(t, o)) \/ Step(t)

Spec == Init /\ [][Next]_vars

\* ------------------------------------------ threads saving and loading

\* NumThreads threads set entries and save to and load from a writable and
\* a read-only file; both files hold a snapshot when the threads start.
FilesOps ==
    {Op("set", SharedKey, v, "") : v \in SharedValues}
    \cup {Op(n, <<>>, <<>>, p) : n \in {"save_to_file", "load_from_file"},
                               p \in {GoodPath, ReadOnlyPath}}

StepFiles(t) ==
    \/ lock_guard(t)
    \/ set(t)
    \/ save_open(t)
    \/ save_write(t)
    \/ load_open(t)
    \/ load_line(t)
    \/ load_done(t)

\* ------------------------------------------- one thread, every operation

\* What the snapshot path may hold when the program starts: nothing, a file
\* without any "key: value" line, or a file with one entry that was not
\* written by save_to_file.
JunkText == <<"j", "u", "n", "k">>

ForeignText == <<QUOTE, "b", QUOTE, COLON, SPACE, QUOTE, "x", QUOTE, NEWLINE>>

StartFiles == {NoFile, File(JunkText), File(ForeignText)}

\* One thread, as in main(): it calls any operation with any of the keys,
\* values and paths, one after the other.
InitSeq ==
    \E f \in StartFiles :
        InitWith({1}, EmptyMap, [NoFiles EXCEPT ![GoodPath] = f])

NextSeq == (\E o \in AllOps : Call(1, o)) \/ Step(1)

SpecSeq == InitSeq /\ [][NextSeq]_vars

\* ------------------------------------------------ save, restart, load

\* The characters of the values of the snapshot specification: a plain
\* character and the two characters escape() rewrites.
SnapAlphabet == {"v", QUOTE, BSLASH}

\* Every string over the alphabet of at most MaxValLen characters.
SnapValues == UNION {[1..n -> SnapAlphabet] : n \in 0..MaxValLen}

\* Every map from some of the keys to these values.
SnapStores == UNION {[D -> SnapValues] : D \in SUBSET Keys}

SnapOps == {Op(n, <<>>, <<>>, GoodPath) : n \in {"save_to_file", "load_from_file"}}

\* The thread saves once, while no snapshot exists, and loads at any time.
CallSnap ==
    \E o \in SnapOps :
        /\ o.name = "save_to_file" => ~fs[GoodPath].exists
        /\ Call(1, o)

\* The process exits and is started again: main() constructs a new, empty
\* KeyValueStore; the files stay.
Restart ==
    /\ \A t \in Threads : pc[t] = "idle"
    /\ store_' = EmptyMap
    /\ mutex_' = Unlocked
    /\ lin' = EmptyMap
    /\ live' = {}
    /\ op' = [t \in Threads |-> NoOp]
    /\ ret' = [t \in Threads |-> Void]
    /\ out' = [t \in Threads |-> <<>>]
    /\ expect' = [t \in Threads |-> Void]
    /\ UNCHANGED <<fs, pc, ifs, snap, cli>>

InitSnap == \E m \in SnapStores : InitWith({1}, m, NoFiles)

NextSnap ==
    \/ CallSnap
    \/ Restart
    \/ lock_guard(1)
    \/ save_open(1)
    \/ save_write(1)
    \/ load_open(1)
    \/ load_line(1)
    \/ load_done(1)

SpecSnap == InitSnap /\ [][NextSnap]_vars

\* ------------------------------------- two writers of one key, one reader

\* Threads 1 and 2 each call set once, on the same key with different
\* values; thread 3 calls operations that do not write that key.
Writers == {1, 2}

Reader == 3

RaceKey == <<"a">>

OtherKey == <<"b">>

WriterValue(w) == IF w = 1 THEN <<"x">> ELSE <<"y">>

WriterOp(w) == Op("set", RaceKey, WriterValue(w), "")

ReaderOps ==
    {Op("get", RaceKey, <<>>, ""), Op("exists", RaceKey, <<>>, ""),
     Op("set", OtherKey, <<"x">>, ""), Op("remove", OtherKey, <<>>, "")}

CallWriter(w) == op[w] = NoOp /\ Call(w, WriterOp(w))

CallReader == \E o \in ReaderOps : Call(Reader, o)

InitRace == InitWith(Writers \cup {Reader}, EmptyMap, NoFiles)

NextRace ==
    \/ \E w \in Writers : CallWriter(w)
    \/ CallReader
    \/ \E t \in Writers \cup {Reader} :
          lock_guard(t) \/ set(t) \/ get(t) \/ exists(t) \/ remove(t)

SpecRace == InitRace /\ [][NextRace]_vars

\* ----------------------------------------------------------- properties

\* The thread is inside the body of an operation: past the lock_guard and
\* not yet returned (file I/O of save and load included).
InBody(t) == pc[t] \in {"locked", "saving", "loading"}

\* C1: mutual exclusion.  At most one thread is inside the body of a store
\* operation, and a thread inside a body (the file I/O of save_to_file and
\* load_from_file included) is the holder of the mutex.
C1_MutualExclusion ==
    /\ \A t, u \in Threads : InBody(t) /\ InBody(u) => t = u
    /\ \A t \in Threads : InBody(t) => mutex_ = t

\* C1 witness: a thread writes the snapshot file while another thread has
\* called an operation and waits for the mutex.
C1_Witness ==
    \E t, u \in Threads :
        /\ t # u
        /\ pc[t] = "saving"
        /\ pc[u] = "called"

\* C2: atomicity.  Whenever the mutex is free the map is the one the
\* operations produce when run one at a time in the order in which they
\* acquired the mutex, and every operation that has returned returned what
\* it returns in that sequential run: no get, exists or print_all sees the
\* map between the clear and the re-insertions of a load.
C2_Linearizable ==
    /\ mutex_ = Unlocked => store_ = lin
    /\ \A t \in Threads :
          pc[t] = "idle" /\ op[t] # NoOp => SameResult(ret[t], expect[t])

\* C2 witness: a load has emptied the map and has not yet re-inserted the
\* entries of its file, while another thread has called a reading operation
\* and waits for the mutex.
C2_Witness ==
    \E t, u \in Threads :
        /\ t # u
        /\ pc[t] = "loading" /\ store_ = EmptyMap /\ lin # EmptyMap
        /\ pc[u] = "called" /\ op[u].name \in {"get", "exists", "print_all"}

\* The writer's set has returned.
WriterDone(w) == pc[w] = "idle" /\ op[w] = WriterOp(w)

WriterValues == {Some(WriterValue(w)) : w \in Writers}

\* C3: two threads set the same key to v1 and to v2 while no other
\* operation writes the key.  Once both sets have returned the key holds
\* exactly v1 or v2, and a get of the key that runs after at least one of
\* the sets has returned returns v1 or v2, never absent.
C3_ConcurrentSets ==
    /\ []((\A w \in Writers : WriterDone(w)) =>
            GetResult(store_, RaceKey) \in WriterValues)
    /\ [][(/\ AtBody(Reader, "get")
           /\ pc'[Reader] = "idle"
           /\ \E w \in Writers : WriterDone(w))
          => ret'[Reader] \in WriterValues]_vars

\* C3 witness: the reader's get has returned the first writer's value after
\* that writer's set returned, while the second writer, which called its set
\* before, still waits for the mutex.
C3_Witness ==
    /\ WriterDone(1)
    /\ pc[2] = "called"
    /\ pc[Reader] = "idle"
    /\ op[Reader] = Op("get", RaceKey, <<>>, "")
    /\ ret[Reader] = Some(WriterValue(1))

\* The step is the return of thread t from operation `name`.
Returns(t, name) == InBody(t) /\ op[t].name = name /\ pc'[t] = "idle"

\* The keys a state can tell apart: the ones the threads pass and the ones
\* in the map before or after the step.
KeysAt(m1, m2) == Keys \cup DOMAIN m1 \cup DOMAIN m2

\* C4: set(k, v) followed immediately by get(k) returns v (for the empty
\* value and for a key already present too), set reports no failure, and
\* the value of every other key is what it was.
C4_SetThenGet ==
    [][\A t \in Threads :
          Returns(t, "set") =>
             /\ GetResult(store_', op[t].key) = Some(op[t].value)
             /\ \A k \in KeysAt(store_, store_') \ {op[t].key} :
                   GetResult(store_', k) = GetResult(store_, k)
             /\ ret'[t] = Void
             /\ \A i \in DOMAIN out'[t] : out'[t][i].level = "INFO"]_vars

\* C4 witness: set(a, "") has returned, the key holds the empty value and
\* the other key holds its own value.
C4_Witness ==
    \E t \in Threads :
        /\ pc[t] = "idle"
        /\ op[t] = Op("set", <<"a">>, <<>>, "")
        /\ GetResult(store_, <<"a">>) = Some(<<>>)
        /\ GetResult(store_, <<"b">>) = Some(<<"x">>)

\* C5 as claimed: with the mutex free, exists(k) is true exactly for the
\* keys whose most recent set was followed by no remove(k) and no clear().
C5_ExistsIffLastSet ==
    mutex_ = Unlocked =>
        \A k \in KeysAt(store_, store_) \cup live :
            ExistsResult(store_, k) = Bool(k \in live)

\* The keys of the records of a file, as load_from_file reads them.
KeysOfFile(path) == DOMAIN LoadLoop(EmptyMap, fs[path].data, 0)

\* C5 as amended: a successful load_from_file is a mutating operation too.
\* After set(k, _) exists(k) is true, after remove(k) and after clear() it
\* is false, after a successful load it is true exactly when the file holds
\* a record with key k, and no other operation changes exists(k).
C5_ExistsTracksLastMutation ==
    [][\A t \in Threads :
          \A k \in KeysAt(store_, store_') :
             LET before == MapContains(store_, k)
                 after == ExistsResult(store_', k)
             IN /\ Returns(t, "set") =>
                      after = Bool(k = op[t].key \/ before)
                /\ Returns(t, "remove") =>
                      after = Bool(k # op[t].key /\ before)
                /\ Returns(t, "clear") => after = Bool(FALSE)
                /\ (pc[t] = "loading" /\ pc'[t] = "idle") =>
                      after = Bool(k \in KeysOfFile(op[t].path))
                /\ (\A u \in Threads :
                       /\ ~Returns(u, "set")
                       /\ ~Returns(u, "remove")
                       /\ ~Returns(u, "clear")
                       /\ pc[u] # "loading"
                       /\ pc'[u] # "loading") =>
                      after = Bool(before)]_vars

\* C5 witness: a load has returned and exists(k) is true of a key whose
\* last set was followed by a clear or a remove.
C5_Witness ==
    \E t \in Threads :
        /\ pc[t] = "idle"
        /\ op[t].name = "load_from_file"
        /\ out[t] = <<Info("Data loaded from", op[t].path)>>
        /\ \E k \in DOMAIN store_ : k \notin live

\* C6: when clear() returns the map is empty: exists is false and get is
\* absent for every key, and print_all lists no entry.
C6_ClearEmpties ==
    [][\A t \in Threads :
          Returns(t, "clear") =>
             /\ \A k \in KeysAt(store_, store_') :
                   /\ ExistsResult(store_', k) = Bool(FALSE)
                   /\ GetResult(store_', k) = Nullopt
             /\ \A order \in IterationOrders(store_') :
                   DumpLines(store_', order) = <<>>]_vars

\* C6 witness: clear() has returned on a store whose entries had been saved
\* before, and the map is empty.
C6_Witness ==
    \E t \in Threads :
        /\ pc[t] = "idle"
        /\ op[t].name = "clear"
        /\ snap[GoodPath] # EmptyMap
        /\ store_ = EmptyMap

\* C7: remove(k) deletes k and nothing else; when k was absent the map is
\* what it was.
C7_RemoveOnlyKey ==
    [][\A t \in Threads :
          Returns(t, "remove") =>
             /\ ExistsResult(store_', op[t].key) = Bool(FALSE)
             /\ \A k \in KeysAt(store_, store_') \ {op[t].key} :
                   GetResult(store_', k) = GetResult(store_, k)
             /\ ~MapContains(store_, op[t].key) => store_' = store_]_vars

\* C7 witness: remove(a) has returned, a is absent and b is still present.
C7_Witness ==
    \E t \in Threads :
        /\ pc[t] = "idle"
        /\ op[t] = Op("remove", <<"a">>, <<>>, "")
        /\ ~MapContains(store_, <<"a">>)
        /\ MapContains(store_, <<"b">>)

\* C8: a load_from_file whose file cannot be opened leaves the map as it
\* was, logs one error and no "Data loaded" line, and returns with the
\* mutex released.
C8_FailedLoadKeepsStore ==
    [][\A t \in Threads :
          (/\ AtBody(t, "load_from_file")
           /\ ~CanOpenForReading(op[t].path)
           /\ pc'[t] # pc[t]) =>
             /\ store_' = store_
             /\ pc'[t] = "idle"
             /\ out'[t] = <<Error("Could not open file", op[t].path)>>
             /\ mutex_' = Unlocked]_vars

\* C8 witness: a load of a path that cannot be opened has returned with the
\* error line, and the map still holds its entries.
C8_Witness ==
    \E t \in Threads :
        /\ pc[t] = "idle"
        /\ op[t].name = "load_from_file"
        /\ out[t] = <<Error("Could not open file", op[t].path)>>
        /\ store_ # EmptyMap
        /\ mutex_ = Unlocked

\* C9: when a load_from_file that opened its file returns, the map holds
\* exactly the entries read from the file: a key with no record in the
\* file is absent whatever the map held before, and a file without records
\* leaves the map empty.
C9_LoadReplaces ==
    [][\A t \in Threads :
          (pc[t] = "loading" /\ pc'[t] = "idle") =>
             /\ store_' = LoadLoop(EmptyMap, fs[op[t].path].data, 0)
             /\ \A k \in KeysAt(store_, store_') \cup live :
                   k \notin KeysOfFile(op[t].path) =>
                      GetResult(store_', k) = Nullopt
             /\ KeysOfFile(op[t].path) = {} => store_' = EmptyMap
             /\ out'[t] = <<Info("Data loaded from", op[t].path)>>]_vars

\* C9 witness: a load has returned, and a key that was set and neither
\* removed nor cleared since is absent because the file has no record of it.
C9_Witness ==
    \E t \in Threads :
        /\ pc[t] = "idle"
        /\ op[t].name = "load_from_file"
        /\ out[t] = <<Info("Data loaded from", op[t].path)>>
        /\ \E k \in live : ~MapContains(store_, k)

\* C10: round trip.  When a load_from_file of a path has returned with
\* success, the map is the one that save_to_file serialized to that path:
\* get and exists agree with the store of save time for every key, in the
\* same store and in the empty store of a restarted process.  (Every value
\* of SpecSnap is built from a plain character, '"' and '\'.)
C10_RoundTrip ==
    \A t \in Threads :
        (/\ pc[t] = "idle"
         /\ op[t].name = "load_from_file"
         /\ out[t] = <<Info("Data loaded from", op[t].path)>>) =>
            \A k \in KeysAt(store_, snap[op[t].path]) :
                /\ GetResult(store_, k) = GetResult(snap[op[t].path], k)
                /\ ExistsResult(store_, k) = ExistsResult(snap[op[t].path], k)

\* C11: save_to_file never changes the map.  When the destination cannot
\* be opened for writing it returns having logged exactly one error line
\* and no "Data saved" line; when it can, it returns having logged the info
\* line that names the destination.
C11_SaveKeepsStore ==
    [][\A t \in Threads :
          (InBody(t) /\ op[t].name = "save_to_file" /\ pc'[t] # pc[t]) =>
             /\ store_' = store_
             /\ pc'[t] = "idle" =>
                   out'[t] = IF CanOpenForWriting(op[t].path)
                             THEN <<Info("Data saved to", op[t].path)>>
                             ELSE <<Error("Could not open file for writing",
                                          op[t].path)>>]_vars

\* C11 witness: a save to a path that cannot be opened has returned with
\* the error line alone, and the map still holds its entries.
C11_Witness ==
    \E t \in Threads :
        /\ pc[t] = "idle"
        /\ op[t].name = "save_to_file"
        /\ ~CanOpenForWriting(op[t].path)
        /\ out[t] = <<Error("Could not open file for writing", op[t].path)>>
        /\ store_ # EmptyMap

\* ------------------------------------------ threads saving and loading

InitFiles ==
    InitWith(1..NumThreads, EmptyMap,
             [NoFiles EXCEPT ![GoodPath] = File(ForeignText),
                             ![ReadOnlyPath] = File(ForeignText)])

NextFiles == \E t \in 1..NumThreads : (\E o \in FilesOps : Call(t, o)) \/ StepFiles(t)

SpecFiles == InitFiles /\ [][NextFiles]_vars

\* The file at path holds what it held when the threads started, or the
\* whole text that the last completed save_to_file wrote to it.
Complete(path) ==
    /\ fs[path].exists
    /\ \/ fs[path].data = ForeignText
       \/ \E order \in IterationOrders(snap[path]) :
             fs[path].data = SnapshotText(snap[path], order)

Loading(path) == \E t \in Threads : pc[t] = "loading" /\ op[t].path = path

SaveFails(t) ==
    /\ InBody(t)
    /\ op[t].name = "save_to_file"
    /\ ~CanOpenForWriting(op[t].path)
    /\ pc'[t] # pc[t]

\* C12: a load that has opened its file reads a complete snapshot: the
\* text a completed save wrote or the text the file held before, never the
\* truncated or half-written file; nothing writes the file while the load
\* reads it; and a save that fails to open its destination leaves every
\* file as it was.
C12_NoPartialSnapshot ==
    /\ [](\A p \in AllPaths : Loading(p) => Complete(p))
    /\ [][/\ \A p \in AllPaths : Loading(p) => fs'[p] = fs[p]
          /\ \A t \in Threads : SaveFails(t) => fs' = fs]_vars

\* C12 witness: one thread has truncated the destination and not yet
\* written it while another thread has called load_from_file on the same
\* path and waits for the guard.
C12_Witness ==
    \E s, t \in Threads :
        /\ pc[s] = "saving"
        /\ fs[op[s].path].data = <<>>
        /\ pc[t] = "called"
        /\ op[t].name = "load_from_file"
        /\ op[t].path = op[s].path

\* The scheduler lets every thread that can take a step take one, and a
\* thread that waits for the guard gets it if the guard is free again and
\* again.
LiveOps ==
    {Op("set", SharedKey, <<"x">>, ""),
     Op("save_to_file", <<>>, <<>>, GoodPath),
     Op("save_to_file", <<>>, <<>>, ReadOnlyPath),
     Op("load_from_file", <<>>, <<>>, GoodPath)}

NextLive == \E t \in 1..NumThreads : (\E o \in LiveOps : Call(t, o)) \/ StepFiles(t)

FairLive ==
    /\ Init
    /\ [][NextLive]_vars
    /\ \A t \in 1..NumThreads : WF_vars(StepFiles(t)) /\ SF_vars(lock_guard(t))

LineAX == <<SPACE, SPACE, QUOTE, "a", QUOTE, COLON, SPACE, QUOTE, "x", QUOTE, COMMA>>

LineAY == <<SPACE, SPACE, QUOTE, "a", QUOTE, COLON, SPACE, QUOTE, "y", QUOTE>>

LineBQ == <<SPACE, SPACE, QUOTE, "b", QUOTE, COLON, SPACE, QUOTE, BSLASH, QUOTE, QUOTE, COMMA>>

LineBare == <<"b", COLON, "x", COLON, "y">>

LineColon == <<COLON>>

LineEq == <<"a", "=", "x">>

LineEqColon == <<"a", "=", "b", COLON, "x">>

LineJunk == <<"j", "u", "n", "k">>

LoadLines ==
    {LineAX, LineAY, LineBQ, LineBare, LineColon, LineEq, LineEqColon, LineJunk,
     <<LBRACE>>, <<SPACE, RBRACE>>, <<>>, <<SPACE>>}

\* The text of a file with the given lines.
RECURSIVE FileText(_)
FileText(lines) ==
    IF lines = <<>> THEN <<>>
    ELSE Head(lines) \o <<NEWLINE>> \o FileText(Tail(lines))

LoadFiles ==
    {File(FileText(ls)) : ls \in UNION {[1..n -> LoadLines] : n \in 0..MaxLines}}

LoadOp == Op("load_from_file", <<>>, <<>>, GoodPath)

\* One thread loads a file of up to MaxLines lines into a store that holds
\* an entry.
InitLoad ==
    \E f \in LoadFiles :
        InitWith({1}, MapAssign(EmptyMap, <<"c">>, <<"x">>),
                 [NoFiles EXCEPT ![GoodPath] = f])

NextLoad ==
    \/ Call(1, LoadOp)
    \/ lock_guard(1)
    \/ load_open(1)
    \/ load_line(1)
    \/ load_done(1)

SpecLoad == InitLoad /\ [][NextLoad]_vars

\* The lines of a file text, as getline splits it.
RECURSIVE LinesFrom(_, _)
LinesFrom(data, pos) ==
    IF pos >= Len(data) THEN <<>>
    ELSE <<getline(data, pos).line>> \o LinesFrom(data, getline(data, pos).pos)

\* The line that the next iteration of the loop of thread t reads.
NextLine(t) == getline(fs[op[t].path].data, ifs[t]).line

\* Thread t executes one iteration of the loop.
ReadsLine(t) == pc[t] = "loading" /\ pc'[t] = "loading" /\ ifs'[t] # ifs[t]

HasColon(line) == \E i \in 1..Len(line) : line[i] = COLON

\* The parse of a line that the format describes, written from the text of
\* the line alone: the parts before and after the first ':'.
FirstColon(line) ==
    CHOOSE i \in 1..Len(line) : line[i] = COLON /\ \A j \in 1..(i - 1) : line[j] # COLON

BeforeColon(line) == SubSeq(line, 1, FirstColon(line) - 1)

AfterColon(line) == SubSeq(line, FirstColon(line) + 1, Len(line))

StripLeading(s, c) == IF s # <<>> /\ Head(s) = c THEN Tail(s) ELSE s

StripTrailing(s, c) ==
    IF s # <<>> /\ s[Len(s)] = c THEN SubSeq(s, 1, Len(s) - 1) ELSE s

RECURSIVE StripLeadingWs(_)
StripLeadingWs(s) ==
    IF s # <<>> /\ Head(s) \in Whitespace THEN StripLeadingWs(Tail(s)) ELSE s

RECURSIVE StripTrailingWs(_)
StripTrailingWs(s) ==
    IF s # <<>> /\ s[Len(s)] \in Whitespace
    THEN StripTrailingWs(SubSeq(s, 1, Len(s) - 1))
    ELSE s

Trimmed(s) == StripTrailingWs(StripLeadingWs(s))

\* The key and the value of a line with a ':': the text before (after) the
\* first ':' without the whitespace around it, then without one leading
\* quote, (one trailing comma,) one trailing quote.
RefKey(line) == StripTrailing(StripLeading(Trimmed(BeforeColon(line)), QUOTE), QUOTE)

RefValue(line) ==
    StripTrailing(StripTrailing(StripLeading(Trimmed(AfterColon(line)), QUOTE), COMMA), QUOTE)

\* The lines of the file thread t loads, and those of them with a ':'.
LinesOf(t) == LinesFrom(fs[op[t].path].data, 0)

ColonLinesOf(t) == SelectSeq(LinesOf(t), HasColon)

\* C14: a line without ':' (a blank line and a line "{" or "}" included)
\* adds no entry and does not end the load: the loop leaves the map as it
\* is on such a line and goes on, it ends only at the end of the file, and
\* the load then returns as a success with an entry for the key of every
\* line that has a ':' and for no other key.
C14_MalformedSkipped ==
    [][\A t \in Threads :
          /\ (ReadsLine(t) /\ ~HasColon(NextLine(t))) => store_' = store_
          /\ (pc[t] = "loading" /\ pc'[t] # "loading") =>
                /\ ifs[t] >= Len(fs[op[t].path].data)
                /\ out'[t] = <<Info("Data loaded from", op[t].path)>>
                /\ DOMAIN store_' =
                      {RefKey(ColonLinesOf(t)[i]) : i \in DOMAIN ColonLinesOf(t)}]_vars

\* C14 witness: a load has returned with success from a file whose second
\* line has no ':', and the map has the entries of the lines before and
\* after it.
C14_Witness ==
    \E t \in Threads :
        /\ pc[t] = "idle"
        /\ out[t] = <<Info("Data loaded from", op[t].path)>>
        /\ LinesOf(t) = <<LineAX, LineJunk, LineBQ>>
        /\ DOMAIN store_ = {<<"a">>, <<"b">>}

\* The parse as the format section words it: the text before (after) the
\* first ':' as it stands, without one leading quote, (one trailing comma,)
\* one trailing quote.
ClaimKey(line) == StripTrailing(StripLeading(BeforeColon(line), QUOTE), QUOTE)

ClaimValue(line) ==
    StripTrailing(StripTrailing(StripLeading(AfterColon(line), QUOTE), COMMA), QUOTE)

\* The step assigns value to key in the map and changes nothing else.
Assigns(key, value) ==
    /\ DOMAIN store_' = DOMAIN store_ \cup {key}
    /\ store_'[key] = value
    /\ \A k \in DOMAIN store_ \ {key} : store_'[k] = store_[k]

\* C15 as stated: every line with a ':' produces the entry of the parse
\* without any trimming.  It fails on the lines save_to_file writes, which
\* start with two spaces and have a space after the ':'.
C15_LiteralParse ==
    [][\A t \in Threads :
          (ReadsLine(t) /\ HasColon(NextLine(t))) =>
              Assigns(ClaimKey(NextLine(t)), ClaimValue(NextLine(t)))]_vars

\* C15: every line with a ':' produces the entry whose key is the text
\* before the first ':' with the whitespace around it removed, then one
\* leading and one trailing quote removed, and whose value is the text
\* after the first ':' with the whitespace around it removed, then one
\* leading quote, one trailing comma and one trailing quote removed; \" and
\* \\ are kept as they are.
C15_TrimmedParse ==
    [][\A t \in Threads :
          (ReadsLine(t) /\ HasColon(NextLine(t))) =>
              Assigns(RefKey(NextLine(t)), RefValue(NextLine(t)))]_vars

\* C15 witness: the loop has read a line as save_to_file writes it, with
\* an escaped quote as value, and the map holds the backslash and the quote.
C15_Witness ==
    \E t \in Threads :
        /\ pc[t] = "loading"
        /\ LinesOf(t) # <<>>
        /\ Head(LinesOf(t)) = LineBQ
        /\ ifs[t] = Len(LineBQ) + 1
        /\ store_ = MapAssign(EmptyMap, <<"b">>, <<BSLASH, QUOTE>>)

\* The parts of a line before and after its first '='.
HasEq(line) == \E i \in 1..Len(line) : line[i] = "="

FirstEq(line) ==
    CHOOSE i \in 1..Len(line) : line[i] = "=" /\ \A j \in 1..(i - 1) : line[j] # "="

BeforeEq(line) == SubSeq(line, 1, FirstEq(line) - 1)

AfterEq(line) == SubSeq(line, FirstEq(line) + 1, Len(line))

\* C16 as stated: a line key=value produces the entry key -> value, split
\* at the first '='.
C16_LineBased ==
    [][\A t \in Threads :
          (ReadsLine(t) /\ HasEq(NextLine(t))) =>
              Assigns(BeforeEq(NextLine(t)), AfterEq(NextLine(t)))]_vars

\* C16: '=' is no delimiter on load.  A line key=value without a ':' is
\* skipped like any line without ':' and leaves the map as it is; in a line
\* with a ':' the '=' is a character of the key or of the value.
C16_EqIsNoDelimiter ==
    [][\A t \in Threads :
          (ReadsLine(t) /\ HasEq(NextLine(t))) =>
              IF HasColon(NextLine(t))
              THEN Assigns(RefKey(NextLine(t)), RefValue(NextLine(t)))
              ELSE store_' = store_]_vars

\* C16 witness: the loop has read the line a=x and the map is still empty.
C16_Witness ==
    \E t \in Threads :
        /\ pc[t] = "loading"
        /\ LinesOf(t) # <<>>
        /\ Head(LinesOf(t)) = LineEq
        /\ ifs[t] = Len(LineEq) + 1
        /\ store_ = EmptyMap

\* The positions of the lines of the file of thread t that have a ':' and
\* parse to key k.
LinesWithKey(t, k) ==
    {i \in DOMAIN LinesOf(t) : HasColon(LinesOf(t)[i]) /\ RefKey(LinesOf(t)[i]) = k}

Max(S) == CHOOSE i \in S : \A j \in S : j <= i

\* C20: when a load returns, the map holds for every key one value, the
\* one of the last line of the file that parses to that key, and it has no
\* more entries than the file has lines with a ':'.
C20_LastLineWins ==
    [][\A t \in Threads :
          (pc[t] = "loading" /\ pc'[t] = "idle") =>
             /\ \A k \in DOMAIN store_' :
                   /\ LinesWithKey(t, k) # {}
                   /\ store_'[k] = RefValue(LinesOf(t)[Max(LinesWithKey(t, k))])
             /\ Cardinality(DOMAIN store_') <= Len(ColonLinesOf(t))]_vars

\* C20 witness: a load has returned from a file with two lines for key a,
\* with value x and then value y, and the map holds a -> y and nothing else.
C20_Witness ==
    \E t \in Threads :
        /\ pc[t] = "idle"
        /\ out[t] = <<Info("Data loaded from", op[t].path)>>
        /\ LinesOf(t) = <<LineAX, LineJunk, LineAY>>
        /\ store_ = MapAssign(EmptyMap, <<"a">>, <<"y">>)

\* ------------------------------------------------------------- run_cli

\* An std::istringstream: the characters not yet read and whether the
\* stream is good().
IStream(buf, good) == [buf |-> buf, good |-> good]

\* The whitespace operator>> skips before a token.
RECURSIVE skipws(_)
skipws(s) == IF s # <<>> /\ Head(s) \in Whitespace THEN skipws(Tail(s)) ELSE s

\* The characters operator>> extracts: up to the next whitespace.
RECURSIVE word(_)
word(s) ==
    IF s = <<>> \/ Head(s) \in Whitespace THEN <<>> ELSE <<Head(s)>> \o word(Tail(s))

\* iss >> str into an empty string: the token and the stream after it.  A
\* stream that is not good, or holds only whitespace, leaves the string
\* empty and fails; a token that ends the buffer sets eofbit.
Extract(iss) ==
    IF ~iss.good THEN [str |-> <<>>, iss |-> iss]
    ELSE Bind(skipws(iss.buf), LAMBDA s :
           IF s = <<>> THEN [str |-> <<>>, iss |-> IStream(<<>>, FALSE)]
           ELSE Bind(word(s), LAMBDA w :
                  [str |-> w,
                   iss |-> IStream(substrFrom(s, Len(w)), Len(w) < Len(s))]))

\* std::getline(iss, value) into an empty string: the rest of the line, or
\* nothing when the stream is not good.
RestOfLine(iss) == IF iss.good THEN iss.buf ELSE <<>>

Usage == Error("Usage: set <key> <value>", <<>>)

Unknown(cmd) == Error("Unknown command", cmd)

\* Mutant of UsageError: only the key is checked.
UsageError_key_only(key, value) == key = <<>>

\* key.empty() || value.empty()
UsageError(key, value) == key = <<>> \/ value = <<>>

\* The file the interpreter's file name stands for: d is the snapshot file,
\* any other name (the empty one too) cannot be opened.
PathOf(name) == IF name = <<"d">> THEN GoodPath ELSE BadPath

\* Mutant of Command: the whole line is compared where its first token is
\* meant.
Command_whole_line(line) == [str |-> line, iss |-> IStream(<<>>, FALSE)]

\* std::istringstream iss(input); iss >> cmd
Command(line) == Extract(IStream(line, TRUE))

\* What one line does: kind "exit" leaves the loop, kind "call" calls op on
\* the store, kind "continue" starts the next iteration; log is what the
\* interpreter itself logs.
Dispatch(line) ==
    Bind(Command(line), LAMBDA c :
      Bind(Extract(c.iss), LAMBDA k :
        CASE c.str = <<"e", "x", "i", "t">> -> [kind |-> "exit", op |-> NoOp, log |-> <<>>]
          [] c.str = <<"s", "e", "t">> ->
                Bind(trim(RestOfLine(k.iss)), LAMBDA value :
                  IF UsageError(k.str, value)
                  THEN [kind |-> "continue", op |-> NoOp, log |-> <<Usage>>]
                  ELSE [kind |-> "call", op |-> Op("set", k.str, value, ""), log |-> <<>>])
          [] c.str = <<"g", "e", "t">> ->
                [kind |-> "call", op |-> Op("get", k.str, <<>>, ""), log |-> <<>>]
          [] c.str = <<"r", "e", "m", "o", "v", "e">> ->
                [kind |-> "call", op |-> Op("remove", k.str, <<>>, ""), log |-> <<>>]
          [] c.str = <<"l", "i", "s", "t">> ->
                [kind |-> "call", op |-> Op("print_all", <<>>, <<>>, ""), log |-> <<>>]
          [] c.str = <<"c", "l", "e", "a", "r">> ->
                [kind |-> "call", op |-> Op("clear", <<>>, <<>>, ""), log |-> <<>>]
          [] c.str = <<"s", "a", "v", "e">> ->
                [kind |-> "call", op |-> Op("save_to_file", <<>>, <<>>, PathOf(k.str)),
                 log |-> <<>>]
          [] c.str = <<"l", "o", "a", "d">> ->
                [kind |-> "call", op |-> Op("load_from_file", <<>>, <<>>, PathOf(k.str)),
                 log |-> <<>>]
          [] OTHER -> [kind |-> "continue", op |-> NoOp, log |-> <<Unknown(c.str)>>]))

\* The lines typed at the prompt.
CliLines ==
    {<<"s", "e", "t", " ", "a", " ", "x">>,
     <<"s", "e", "t", " ", "a">>,
     <<"s", "e", "t">>,
     <<"s", "e", "t", " ", "a", " ", " ">>,
     <<" ", "s", "e", "t", " ", " ", "a", " ", " ", " ", "x", " ", "y", " ">>,
     <<"g", "e", "t", " ", "a">>,
     <<"r", "e", "m", "o", "v", "e", " ", "a">>,
     <<"l", "i", "s", "t">>,
     <<"c", "l", "e", "a", "r">>,
     <<"s", "a", "v", "e", " ", "d">>,
     <<"l", "o", "a", "d", " ", "d">>,
     <<"l", "o", "a", "d">>,
     <<"e", "x", "i", "t">>,
     <<" ", "e", "x", "i", "t">>,
     <<"e", "x", "i", "t", " ", "n", "o", "w">>,
     <<"e", "x", "i", "t", "s">>,
     <<"g", "e", "t", " ", "u", "s", "e", "r", "n", "a", "m", "e">>,
     <<>>,
     <<"b", "o", "g", "u", "s">>}

\* std::getline(std::cin, input): a line, a last line that ends the input
\* without a newline (eofbit), or the end of the input (input erased,
\* failbit).  Once cin is not good getline leaves input as it is.
ReadLine ==
    IF cin = "good"
    THEN {[input |-> l, cin |-> "good"] : l \in CliLines}
         \cup {[input |-> l, cin |-> "eof"] : l \in CliLines \ {<<>>}}
         \cup {[input |-> <<>>, cin |-> "fail"]}
    ELSE {[input |-> input, cin |-> "fail"]}

\* The statements of run_tests with the value each assert expects (Void
\* for the calls that return nothing).
Username == <<"u", "s", "e", "r", "n", "a", "m", "e">>

Lang == <<"l", "a", "n", "g">>

Tests ==
    <<[op |-> Op("set", Username, <<"a", "b", "h", "i", "s", "h", "e", "k">>, ""), expected |-> Void],
      [op |-> Op("set", Lang, <<"C", "+", "+", "1", "7">>, ""), expected |-> Void],
      [op |-> Op("get", Username, <<>>, ""), expected |-> Some(<<"a", "b", "h", "i", "s", "h", "e", "k">>)],
      [op |-> Op("exists", Lang, <<>>, ""), expected |-> Bool(TRUE)],
      [op |-> Op("remove", Lang, <<>>, ""), expected |-> Void],
      [op |-> Op("exists", Lang, <<>>, ""), expected |-> Bool(FALSE)],
      [op |-> Op("clear", <<>>, <<>>, ""), expected |-> Void],
      [op |-> Op("exists", Username, <<>>, ""), expected |-> Bool(FALSE)]>>

StoreVars == <<store_, mutex_, fs, pc, op, ret, out, ifs, lin, expect, snap, live>>

\* Mutant of run_tests: the tests run on the store that run_cli serves.
run_tests_shared ==
    /\ main_pc = "run_tests"
    /\ IF SeqResult(Tests[test_pc].op, store_) # Tests[test_pc].expected
       THEN main_pc' = "abort" /\ UNCHANGED <<test_pc, store_>>
       ELSE /\ store_' = SeqStore(Tests[test_pc].op, store_, fs)
            /\ test_pc' = test_pc + 1
            /\ main_pc' = IF test_pc = Len(Tests) THEN "run_cli" ELSE "run_tests"
    /\ UNCHANGED <<mutex_, fs, pc, op, ret, out, ifs, lin, expect, snap, live>>
    /\ UNCHANGED <<test_kv, cin, input, log, prompts>>

\* One statement of run_tests on its local store kv; a failed assert
\* aborts the program, the last statement returns to main, which constructs
\* the store and enters run_cli.
run_tests ==
    /\ main_pc = "run_tests"
    /\ IF SeqResult(Tests[test_pc].op, test_kv) # Tests[test_pc].expected
       THEN main_pc' = "abort" /\ UNCHANGED <<test_pc, test_kv>>
       ELSE /\ test_kv' = SeqStore(Tests[test_pc].op, test_kv, fs)
            /\ test_pc' = test_pc + 1
            /\ main_pc' = IF test_pc = Len(Tests) THEN "run_cli" ELSE "run_tests"
    /\ UNCHANGED StoreVars
    /\ UNCHANGED <<cin, input, log, prompts>>

\* One iteration of the loop of run_cli up to the call of the store
\* operation; the next iteration starts when that call has returned.
run_cli ==
    /\ main_pc = "run_cli"
    /\ pc[1] = "idle"
    /\ prompts' = 1 - prompts
    /\ \E r \in ReadLine :
          /\ input' = r.input
          /\ cin' = r.cin
          /\ \E d \in {Dispatch(r.input)} :
                /\ log' = d.log
                /\ main_pc' = IF d.kind = "exit" THEN "return" ELSE "run_cli"
                /\ IF d.kind = "call"
                   THEN Invoke(1, d.op)
                   ELSE UNCHANGED StoreVars
    /\ UNCHANGED <<test_pc, test_kv>>

\* main(): the self-tests, then the interpreter on a store of its own.
InitCli ==
    /\ InitStore({1}, EmptyMap, NoFiles)
    /\ main_pc = "run_tests"
    /\ test_pc = 1
    /\ test_kv = EmptyMap
    /\ cin = "good"
    /\ input = <<>>
    /\ log = <<>>
    /\ prompts = 0

\* The steps of the operations run_cli calls; it has no command for exists.
StepCli ==
    \/ lock_guard(1)
    \/ set(1)
    \/ get(1)
    \/ remove(1)
    \/ print_all(1)
    \/ clear(1)
    \/ save_open(1)
    \/ save_write(1)
    \/ load_open(1)
    \/ load_line(1)
    \/ load_done(1)

NextCli == run_tests \/ run_cli \/ StepCli

SpecCli == InitCli /\ [][NextCli]_vars

\* The first word of a text and what follows it, written from the text
\* alone: the word starts after the leading whitespace and ends before the
\* next whitespace.
WordEnd(s) ==
    IF \E i \in 1..Len(s) : s[i] \in Whitespace
    THEN CHOOSE i \in 1..Len(s) :
            s[i] \in Whitespace /\ \A j \in 1..(i - 1) : s[j] \notin Whitespace
    ELSE Len(s) + 1

RefWord(s) == SubSeq(StripLeadingWs(s), 1, WordEnd(StripLeadingWs(s)) - 1)

RefAfterWord(s) ==
    SubSeq(StripLeadingWs(s), WordEnd(StripLeadingWs(s)), Len(StripLeadingWs(s)))

\* The step is an iteration of the loop of run_cli: it prints a prompt and
\* handles the line in input'.
Iteration == main_pc = "run_cli" /\ prompts' # prompts

SetKey(line) == RefWord(RefAfterWord(line))

SetValue(line) == Trimmed(RefAfterWord(RefAfterWord(line)))

\* C13: an iteration starts only when no store operation is under way.  On
\* a line whose first word is set, if the key is missing or the rest after
\* the key is empty once trimmed, the iteration calls nothing, leaves the
\* map as it is, logs the usage error and stays in the loop; otherwise it
\* makes one call, set(key, rest after the key trimmed).
C13_SetLine ==
    [][(Iteration /\ RefWord(input') = <<"s", "e", "t">>) =>
          /\ pc[1] = "idle"
          /\ store_' = store_
          /\ main_pc' = "run_cli"
          /\ IF SetKey(input') = <<>> \/ SetValue(input') = <<>>
             THEN /\ pc'[1] = "idle"
                  /\ log' = <<Usage>>
             ELSE /\ pc'[1] = "called"
                  /\ op'[1] = Op("set", SetKey(input'), SetValue(input'), "")
                  /\ log' = <<>>]_vars

\* C13 witness: the line "set a" followed by two spaces was answered with
\* the usage error; the map holds what an earlier line set and the loop
\* goes on.
C13_Witness ==
    /\ main_pc = "run_cli"
    /\ input = <<"s", "e", "t", " ", "a", " ", " ">>
    /\ log = <<Usage>>
    /\ pc[1] = "idle"
    /\ store_ = MapAssign(EmptyMap, <<"a">>, <<"x", " ", "y">>)

\* main() is about to read the first line of the session.
FirstPrompt == main_pc = "run_cli" /\ prompts = 0 /\ op[1] = NoOp /\ log = <<>>

TestKeys == {Tests[i].op.key : i \in DOMAIN Tests} \ {<<>>}

\* C18: the self-tests leave the store of the session alone; it is empty
\* when the first line is read, and at no time does the session's map hold
\* a key of the self-tests or a get of the session return their value.
C18_SeparateStore ==
    /\ [][main_pc = "run_tests" => UNCHANGED StoreVars]_vars
    /\ [](FirstPrompt => store_ = EmptyMap)
    /\ [](DOMAIN store_ \cap TestKeys = {})
    /\ [](pc[1] = "idle" /\ op[1].name = "get" /\ op[1].key \in TestKeys
             => ret[1] = Nullopt)

\* C18 witness: the self-tests are over, the session has asked for the key
\* the tests had set and got nothing.
C18_Witness ==
    /\ main_pc = "run_cli"
    /\ test_pc = Len(Tests) + 1
    /\ pc[1] = "idle"
    /\ op[1] = Op("get", Username, <<>>, "")
    /\ ret[1] = Nullopt

CmdExit == <<"e", "x", "i", "t">>

\* C19: the loop is left on a line whose first word is exit, and only on
\* such a line; every other line keeps main in the loop, and once the input
\* has ended without such a line main stays in the loop for good.
C19_ExitOnly ==
    [][/\ Iteration => (main_pc' = "return" <=> RefWord(input') = CmdExit)
       /\ (main_pc = "run_cli" /\ main_pc' # "run_cli") =>
             (Iteration /\ main_pc' = "return")
       /\ (main_pc = "run_cli" /\ ~Iteration) => main_pc' = "run_cli"
       /\ (main_pc = "run_cli" /\ cin # "good") => main_pc' = "run_cli"
       /\ main_pc = "return" => main_pc' = "return"]_vars

\* C19 witness: the line "exit now" has ended the loop.
C19_Witness ==
    /\ main_pc = "return"
    /\ input = <<"e", "x", "i", "t", " ", "n", "o", "w">>

====
